---- MODULE Spec2Model ----
\* sqsh: batch compression orchestration (App.startCompression / processFile),
\* the compression service (CompressionService) and the output path allocator
\* (generateOutputPath), modelled as a state machine over the App's React
\* state, the in-flight encoder invocation and the file system.
EXTENDS Integers, Sequences, FiniteSets, TLC

\* ------------------------------------------------------------------ bounds
MaxFiles == 2   \* files handed to handleFilesSelected in one session
MaxSize == 3    \* largest file size, in KB units, the encoder can write
MaxRuns == 1    \* batches started in one session (handleCompressMore loops)
MaxNest == 2    \* nested compressAudio re-entries that are followed
MaxAllocs == 3  \* allocations made in the allocator specification
MaxFaults == 1  \* failing unlinks and removed directories in one session
MaxType == 1    \* characters typed into the dropper that complete no path
MaxTimers == 1  \* Enter timeouts of the dropper pending at once

KB == 1024

\* ------------------------------------------------------- strings and paths
\* A file name is a sequence of characters; a path is a directory and a name
\* (path.join(dir, name), path.dirname and path.basename of a joined path).
Sqshed == <<"-", "s", "q", "s", "h", "e", "d">>
Dot == <<".">>

Null == "<null>"

Fmt_mp4 == <<"m", "p", "4">>
Fmt_webm == <<"w", "e", "b", "m">>
Fmt_mov == <<"m", "o", "v">>
Fmt_mkv == <<"m", "k", "v">>
Fmt_avi == <<"a", "v", "i">>
Fmt_flv == <<"f", "l", "v">>
Fmt_wmv == <<"w", "m", "v">>
Fmt_m4v == <<"m", "4", "v">>
Fmt_jpg == <<"j", "p", "g">>
Fmt_jpeg == <<"j", "p", "e", "g">>
Fmt_png == <<"p", "n", "g">>
Fmt_gif == <<"g", "i", "f">>
Fmt_webp == <<"w", "e", "b", "p">>
Fmt_bmp == <<"b", "m", "p">>
Fmt_mp3 == <<"m", "p", "3">>
Fmt_aac == <<"a", "a", "c">>
Fmt_wav == <<"w", "a", "v">>
Fmt_ogg == <<"o", "g", "g">>
Fmt_flac == <<"f", "l", "a", "c">>
Fmt_m4a == <<"m", "4", "a">>

SUPPORTED_VIDEO_FORMATS ==
  {Dot \o f : f \in {Fmt_mp4, Fmt_mov, Fmt_avi, Fmt_mkv, Fmt_webm, Fmt_flv, Fmt_wmv, Fmt_m4v}}
SUPPORTED_IMAGE_FORMATS ==
  {Dot \o f : f \in {Fmt_jpg, Fmt_jpeg, Fmt_png, Fmt_gif, Fmt_webp, Fmt_bmp}}
SUPPORTED_AUDIO_FORMATS ==
  {Dot \o f : f \in {Fmt_mp3, Fmt_aac, Fmt_wav, Fmt_ogg, Fmt_flac, Fmt_m4a}}

VideoFormat == {Fmt_mp4, Fmt_webm, Fmt_mov, Fmt_mkv, Fmt_avi}
ImageFormat == {Fmt_jpg, Fmt_png, Fmt_webp, Fmt_gif}
AudioFormat == {Fmt_mp3, Fmt_aac, Fmt_wav, Fmt_ogg, Fmt_flac, Fmt_m4a}

QualityLevel == {"high", "medium", "low", "custom"}

\* String.prototype.toLowerCase, on the characters that occur in the model.
toLowerCase(s) ==
  [i \in 1..Len(s) |->
     CASE s[i] = "M" -> "m"
       [] s[i] = "O" -> "o"
       [] s[i] = "V" -> "v"
       [] OTHER -> s[i]]

LastDot(s) ==
  LET dots == {i \in 1..Len(s) : s[i] = "."}
  IN IF dots = {} THEN 0 ELSE CHOOSE i \in dots : \A j \in dots : j <= i

\* path.extname: from the last dot of the name, "" when there is none or the
\* name only starts with it.
extname(name) ==
  IF LastDot(name) <= 1 THEN <<>> ELSE SubSeq(name, LastDot(name), Len(name))

EndsWith(s, suffix) ==
  /\ Len(suffix) <= Len(s)
  /\ SubSeq(s, Len(s) - Len(suffix) + 1, Len(s)) = suffix

StartsWith(s, prefix) ==
  /\ Len(prefix) <= Len(s)
  /\ SubSeq(s, 1, Len(prefix)) = prefix

\* path.basename(p, ext): the name without the suffix ext.
basename(name, ext) ==
  IF ext # <<>> /\ EndsWith(name, ext) /\ Len(ext) < Len(name)
  THEN SubSeq(name, 1, Len(name) - Len(ext))
  ELSE name

join(dir, name) == [dir |-> dir, name |-> name]
dirname(p) == p.dir

\* ------------------------------------------------------------ file system
\* disk: the regular files, path -> size; dirs: the directories.
existsSync(disk, p) == p \in DOMAIN disk

\* isValidDirectory without the check.
isValidDirectory_any(dirs, cleanPath) == TRUE

isValidDirectory(dirs, cleanPath) == cleanPath \in dirs

WriteFile(disk, p, size) ==
  [q \in (DOMAIN disk) \cup {p} |-> IF q = p THEN size ELSE disk[q]]

RemoveFile(disk, p) ==
  [q \in (DOMAIN disk) \ {p} |-> disk[q]]

FileTypeOf(ext) ==
  IF ext \in SUPPORTED_VIDEO_FORMATS THEN "video"
  ELSE IF ext \in SUPPORTED_IMAGE_FORMATS THEN "image"
  ELSE IF ext \in SUPPORTED_AUDIO_FORMATS THEN "audio"
  ELSE Null

\* getFileInfo: <<>> for null, else <<FileInfo>>.
getFileInfo(disk, p) ==
  IF ~existsSync(disk, p) THEN <<>>
  ELSE LET ext == toLowerCase(extname(p.name))
       IN IF FileTypeOf(ext) = Null THEN <<>>
          ELSE << [path |-> p, name |-> p.name, size |-> disk[p],
                   type |-> FileTypeOf(ext),
                   extension |-> SubSeq(ext, 2, Len(ext))] >>

\* ------------------------------------------------- output path allocation
OutputName(baseOutputName, counter, outputExt) ==
  IF counter = 0 THEN baseOutputName \o outputExt
  ELSE baseOutputName \o <<"-", ToString(counter)>> \o outputExt

\* AllocLoop with the existence check made once only: a taken first name is
\* replaced by the "-1" name unseen.
AllocLoop_once(disk, dir, baseOutputName, outputExt, outputPath, counter) ==
  IF existsSync(disk, outputPath)
  THEN join(dir, OutputName(baseOutputName, counter, outputExt))
  ELSE outputPath

RECURSIVE AllocLoop(_, _, _, _, _, _)
AllocLoop(disk, dir, baseOutputName, outputExt, outputPath, counter) ==
  IF existsSync(disk, outputPath)
  THEN AllocLoop(disk, dir, baseOutputName, outputExt,
                 join(dir, OutputName(baseOutputName, counter, outputExt)),
                 counter + 1)
  ELSE outputPath

\* advanced: <<>> for undefined, else <<AdvancedSettings>>; in the settings
\* outputFolder = Null, targetSize = 0 and outputFormat = <<>> stand for null.
\* OutputDir that ignores the folder override.
OutputDir_input(inputPath, advanced) == dirname(inputPath)

OutputDir(inputPath, advanced) ==
  IF advanced # <<>> /\ advanced[1].outputFolder # Null
  THEN advanced[1].outputFolder
  ELSE dirname(inputPath)

OutputExt(inputPath, advanced) ==
  IF advanced # <<>> /\ advanced[1].outputFormat # <<>>
  THEN Dot \o advanced[1].outputFormat
  ELSE extname(inputPath.name)

generateOutputPath(disk, inputPath, advanced) ==
  LET ext == extname(inputPath.name)
      dir == OutputDir(inputPath, advanced)
      base == basename(inputPath.name, ext)
      outputExt == OutputExt(inputPath, advanced)
      baseOutputName == base \o Sqshed
  IN AllocLoop(disk, dir, baseOutputName, outputExt,
               join(dir, OutputName(baseOutputName, 0, outputExt)), 1)

\* ----------------------------------------------------- compression service
\* getOutputFormat: the format the encoder writes.
getOutputFormat(fileInfo, advanced) ==
  IF advanced # <<>> /\ advanced[1].outputFormat # <<>>
  THEN advanced[1].outputFormat
  ELSE fileInfo.extension

HasTargetSize(settings) ==
  settings.advanced # <<>> /\ settings.advanced[1].targetSize # 0

IsLossless(format) == format = Fmt_flac \/ format = Fmt_wav

\* calculateResult, given the disk at the encoder's 'end' event; statSync
\* throws when the output file is not there (StatThrows).
StatThrows(disk, outputPath) == ~existsSync(disk, outputPath)

\* calculateResult with > for >= : an output of equal size is kept.
calculateResult_gt(disk, fileInfo, outputPath) ==
  LET outputSize == disk[outputPath]
      savedBytes == fileInfo.size - outputSize
  IN IF outputSize > fileInfo.size
     THEN [inputPath |-> fileInfo.path, outputPath |-> fileInfo.path,
           inputSize |-> fileInfo.size, outputSize |-> fileInfo.size,
           savedBytes |-> 0, savedPercentage |-> 0,
           alreadyOptimized |-> TRUE, inputFileRemoved |-> FALSE]
     ELSE [inputPath |-> fileInfo.path, outputPath |-> outputPath,
           inputSize |-> fileInfo.size, outputSize |-> outputSize,
           savedBytes |-> savedBytes,
           savedPercentage |-> (savedBytes * 100) \div fileInfo.size,
           alreadyOptimized |-> FALSE, inputFileRemoved |-> FALSE]

\* calculateResult whose already-optimized form keeps the measured numbers.
calculateResult_measured(disk, fileInfo, outputPath) ==
  LET outputSize == disk[outputPath]
      savedBytes == fileInfo.size - outputSize
  IN [inputPath |-> fileInfo.path,
      outputPath |-> IF outputSize >= fileInfo.size THEN fileInfo.path ELSE outputPath,
      inputSize |-> fileInfo.size, outputSize |-> outputSize,
      savedBytes |-> savedBytes,
      savedPercentage |-> (savedBytes * 100) \div fileInfo.size,
      alreadyOptimized |-> outputSize >= fileInfo.size,
      inputFileRemoved |-> FALSE]

calculateResult(disk, fileInfo, outputPath) ==
  LET outputSize == disk[outputPath]
      savedBytes == fileInfo.size - outputSize
  IN IF outputSize >= fileInfo.size
     THEN [inputPath |-> fileInfo.path, outputPath |-> fileInfo.path,
           inputSize |-> fileInfo.size, outputSize |-> fileInfo.size,
           savedBytes |-> 0, savedPercentage |-> 0,
           alreadyOptimized |-> TRUE, inputFileRemoved |-> FALSE]
     ELSE [inputPath |-> fileInfo.path, outputPath |-> outputPath,
           inputSize |-> fileInfo.size, outputSize |-> outputSize,
           savedBytes |-> savedBytes,
           savedPercentage |-> (savedBytes * 100) \div fileInfo.size,
           alreadyOptimized |-> FALSE, inputFileRemoved |-> FALSE]

\* The unlink of calculateResult: tried only for an output that is not
\* smaller; its failure is swallowed and leaves the file.
DiskAfterResult(disk, fileInfo, outputPath, unlinkOk) ==
  IF disk[outputPath] >= fileInfo.size /\ unlinkOk
  THEN RemoveFile(disk, outputPath)
  ELSE disk

\* The condition of the 'end' handlers under which deleteFile is called.
\* ShouldRemoveInput without the alreadyOptimized test.
ShouldRemoveInput_always(settings, result) == settings.removeInputFile

\* ShouldRemoveInput with the alreadyOptimized test inverted.
ShouldRemoveInput_optimized(settings, result) ==
  settings.removeInputFile /\ result.alreadyOptimized

ShouldRemoveInput(settings, result) ==
  settings.removeInputFile /\ ~result.alreadyOptimized

\* deleteFile: true when the file existed and was unlinked.
deleteFile(disk, filePath, unlinkOk) ==
  IF existsSync(disk, filePath) /\ unlinkOk
  THEN [disk |-> RemoveFile(disk, filePath), returned |-> TRUE]
  ELSE [disk |-> disk, returned |-> FALSE]

\* The 'end' handler after calculateResult: deleteFile's return value is not
\* looked at.
ResultAfterRemoval(settings, result) ==
  IF ShouldRemoveInput(settings, result)
  THEN [result EXCEPT !.inputFileRemoved = TRUE]
  ELSE result

\* parseTimeToSeconds of a timemark <<hours, minutes, seconds>>.
parseTimeToSeconds(timeString) ==
  timeString[1] * 3600 + timeString[2] * 60 + timeString[3]

\* Math.min((currentTime / duration) * 100, 100), in whole percent.
Percentage(currentTime, duration) ==
  IF (currentTime * 100) \div duration < 100
  THEN (currentTime * 100) \div duration
  ELSE 100

\* The rejection of the 'error' handlers, and what processFile's catch keeps.
FFmpegError(message) == "FFmpeg error: " \o message

CaughtMessage(err) ==
  IF err.isError THEN err.message ELSE "Compression failed"

\* The service method compress dispatches to, after the target-size check.
Method(fileInfo, settings) ==
  IF fileInfo.type = "video"
  THEN IF HasTargetSize(settings) THEN "videoTarget" ELSE "video"
  ELSE IF fileInfo.type = "audio"
  THEN IF HasTargetSize(settings) THEN "audioTarget" ELSE "audio"
  ELSE "image"

\* Where the invocation first suspends: on ffprobe or on the encoder.
FirstWait(method) ==
  IF method \in {"videoTarget", "audio", "audioTarget"} THEN "probing"
  ELSE "encoding"

\* ------------------------------------------------------------------ state
VARIABLES
  step, files, currentFileIndex, quality, removeInputFile, advancedSettings,
  edStep, folderInput, edOutputFolder, folderError, targetSizeInput, edTargetSize,
  sizeError,
  disk, dirs,
  pc, settings, method, outputPath, duration, started, nest,
  runs, submitted, faults, settled, wrote, deleteCalled, deletedInput,
  allocDirValid, allocLog,
  droppedFiles, inputValue, dropError, enterTimers, enterResult,
  exitWarning, warningTimeout, showThankYou, exitTimer, exited,
  summary,
  command, autoPath, platform, brewAvailable, ffmpegPresent, rendered,
  startupCheck, showApp, setupStep, setupChecked, installMethods, selectedIndex,
  installProc, installCode, recheck, enterPressed,
  autoStep, autoInfo, autoSettings, autoOutputPath, autoResult,
  exitCode

appVars == <<step, files, currentFileIndex, quality, removeInputFile, advancedSettings>>
edVars == <<edStep, folderInput, edOutputFolder, folderError, targetSizeInput,
           edTargetSize, sizeError>>
fsVars == <<disk, dirs>>
callVars == <<pc, settings, method, outputPath, duration, started, nest>>
dropVars == <<droppedFiles, inputValue, dropError, enterTimers, enterResult>>
sigVars == <<exitWarning, warningTimeout, showThankYou, exitTimer, exited>>
histVars == <<runs, submitted, faults, settled, wrote, deleteCalled, deletedInput,
             allocDirValid>>
envVars == <<command, autoPath, platform, brewAvailable, ffmpegPresent>>
setupVars == <<setupStep, setupChecked, installMethods, selectedIndex, installProc,
              installCode, recheck, enterPressed>>
autoVars == <<autoStep, autoInfo, autoSettings, autoOutputPath, autoResult>>
bootVars == <<envVars, rendered, startupCheck, showApp, setupVars, autoVars>>
startVars == <<bootVars, exitCode>>
vars == <<appVars, edVars, fsVars, callVars, histVars, allocLog, dropVars, sigVars, summary,
          startVars>>

\* --------------------------------------------------------------- universe
\* The directories and files of the modelled file system, the texts the user
\* types and the events the encoder can deliver.
InputDir == "in"
OutFolder == "out"
MissingFolder == "missing"

Name_a_mp4 == <<"a">> \o Dot \o Fmt_mp4
Name_a_MOV == <<"a", ".", "M", "O", "V">>
Name_a_sqshed_mp4 == <<"a">> \o Sqshed \o Dot \o Fmt_mp4
Name_p_jpg == <<"p">> \o Dot \o Fmt_jpg
Name_s_flac == <<"s">> \o Dot \o Fmt_flac

Droppable ==
  {join(InputDir, n) :
     n \in {Name_a_mp4, Name_a_MOV, Name_p_jpg, Name_s_flac, Name_a_sqshed_mp4}}

InputSize == (MaxSize - 1) * KB

Name_a_sqshed_1_mp4 == <<"a">> \o Sqshed \o <<"-", ToString(1)>> \o Dot \o Fmt_mp4

\* The disk at start-up: the media files and the outputs of earlier sessions.
InitialDisk(earlierOutputs) ==
  LET names == {Name_a_mp4, Name_a_MOV, Name_p_jpg, Name_s_flac}
  IN [p \in {join(InputDir, n) : n \in names \cup earlierOutputs} |->
        IF p.name = Name_a_MOV \/ p.name \notin names THEN InputSize - KB \div 2
        ELSE InputSize]

OutSizes == {k * KB : k \in 1..MaxSize}
PartialSizes == {0, KB}
Durations == {0, 2}
\* timemarks of the encoder's progress lines; ffmpeg prints a negative time
\* while it has no timestamp yet
Timemarks == {<<0, 0, 1>>, <<0, 0, 3>>, <<-1, 0, 0>>}
DropFolders == {InputDir, OutFolder}
FolderTexts == {"", OutFolder, MissingFolder}
\* typed target sizes, in hundredths of the display unit ("" is -1)
TargetTexts == {-1, 0, 100} \cup {100 * (MaxSize - 1) - 10, 100 * (MaxSize - 1)}
EncoderMessages == {"ffmpeg exited with code 1"}
ProbeErrors ==
  {[isError |-> TRUE, message |-> "ffprobe exited with code 1"]}

QualityChoices == {"medium"}

FormatChoices(type) ==
  IF type = "video" THEN {Fmt_mp4, Fmt_webm}
  ELSE IF type = "image" THEN {Fmt_jpg, Fmt_png}
  ELSE {Fmt_flac, Fmt_mp3}

\* getFormatOptions: the formats the editor offers for a file type.
getFormatOptions(type) ==
  IF type = "video" THEN VideoFormat
  ELSE IF type = "image" THEN ImageFormat
  ELSE AudioFormat

\* getFileSizeUnit, bytesToUnit and unitToBytes. Values in a display unit are
\* kept in hundredths of the unit: bytesToUnit rounds to whole KB
\* (Math.round(bytes / 1024)) or to two decimals of a MB.
getFileSizeUnit(bytes) == IF bytes < KB * KB THEN "KB" ELSE "MB"

bytesToUnit(bytes, unit) ==
  IF unit = "KB" THEN 100 * ((2 * bytes + KB) \div (2 * KB))
  ELSE (2 * bytes * 100 + KB * KB) \div (2 * KB * KB)

unitToBytes(hundredths, unit) ==
  IF unit = "KB" THEN (hundredths * KB) \div 100
  ELSE (hundredths * KB * KB) \div 100

\* toBatchFiles: a FileInfo as a batch record.
toBatchFile(fileInfo) ==
  [path |-> fileInfo.path, name |-> fileInfo.name, size |-> fileInfo.size,
   type |-> fileInfo.type, extension |-> fileInfo.extension,
   status |-> "pending", progress |-> 0, result |-> <<>>, error |-> <<>>]

toBatchFiles(fs) == [i \in 1..Len(fs) |-> toBatchFile(fs[i])]

\* ---------------------------------------------------------- BatchSummary
\* files.reduce((sum, f) => sum + f.size, 0)
totalInputSize(fs) ==
  LET sum[i \in 0..Len(fs)] == IF i = 0 THEN 0 ELSE sum[i - 1] + fs[i].size
  IN sum[Len(fs)]

\* totalOutputSize that counts nothing for a record without a result.
totalOutputSize_resultsOnly(fs) ==
  LET sum[i \in 0..Len(fs)] ==
        IF i = 0 THEN 0
        ELSE IF fs[i].result # <<>> /\ ~fs[i].result[1].alreadyOptimized
             THEN sum[i - 1] + fs[i].result[1].outputSize
             ELSE sum[i - 1]
  IN sum[Len(fs)]

\* files.reduce(...): the output size of a result that is not
\* alreadyOptimized, else the file's own size
totalOutputSize(fs) ==
  LET sum[i \in 0..Len(fs)] ==
        IF i = 0 THEN 0
        ELSE IF fs[i].result # <<>> /\ ~fs[i].result[1].alreadyOptimized
             THEN sum[i - 1] + fs[i].result[1].outputSize
             ELSE sum[i - 1] + fs[i].size
  IN sum[Len(fs)]

\* The numbers of the batch summary; the percentage in whole percents.
BatchSummary(fs) ==
  LET totalSaved == totalInputSize(fs) - totalOutputSize(fs)
  IN [totalInputSize |-> totalInputSize(fs),
      totalOutputSize |-> totalOutputSize(fs),
      totalSaved |-> totalSaved,
      savedPercentage |-> IF totalInputSize(fs) > 0
                          THEN (totalSaved * 100) \div totalInputSize(fs)
                          ELSE 0]

\* ------------------------------------------------- FileDropper, its helpers
isDirectory(ds, cleanPath) == cleanPath \in ds

\* A directory listing: the entries in some fixed order.
RECURSIVE Listing(_)
Listing(S) ==
  IF S = {} THEN <<>>
  ELSE LET x == CHOOSE y \in S : TRUE IN <<x>> \o Listing(S \ {x})

\* getFilesFromFolder: the supported files that lie directly in the folder.
getFilesFromFolder(dsk, dir) ==
  LET entries == Listing({p \in DOMAIN dsk : p.dir = dir /\ getFileInfo(dsk, p) # <<>>})
  IN [i \in 1..Len(entries) |-> getFileInfo(dsk, entries[i])[1]]

MixedTypesError == "All files must be the same type"
InvalidFilesError == "Invalid files"
NoFilesError == "Drop a file or folder first"
EmptyFolderError == "No supported files found in folder"

\* validateBatchFiles: a list is valid when its files share one category.
validateBatchFiles(fs) ==
  IF \A i, j \in 1..Len(fs) : fs[i].type = fs[j].type
  THEN [valid |-> TRUE, error |-> Null]
  ELSE [valid |-> FALSE, error |-> MixedTypesError]

\* The validation effect on droppedFiles: the error it leaves.
ValidationEffect(fs) ==
  IF Len(fs) = 0 THEN Null
  ELSE IF ~validateBatchFiles(fs).valid
  THEN (IF validateBatchFiles(fs).error # Null
        THEN validateBatchFiles(fs).error ELSE InvalidFilesError)
  ELSE Null

\* processPath for a single file: appended unless its path is there already.
\* The update of processPath without the check for duplicates.
AddDropped_always(prev, fileInfo) == Append(prev, fileInfo)

AddDropped(prev, fileInfo) ==
  IF \E i \in 1..Len(prev) : prev[i].path = fileInfo.path
  THEN prev
  ELSE Append(prev, fileInfo)

\* ------------------------------------------------------------------- Init
EditorClosed ==
  /\ edStep = "output-folder" /\ folderInput = "" /\ edOutputFolder = Null
  /\ folderError = FALSE /\ targetSizeInput = -1 /\ edTargetSize = 0
  /\ sizeError = FALSE

NoCall ==
  /\ pc = "idle" /\ settings = <<>> /\ method = Null
  /\ outputPath = <<>> /\ duration = 0 /\ started = FALSE /\ nest = 0

\* The editor is unmounted / no invocation is in flight, as next state.
CloseEditor ==
  /\ edStep' = "output-folder" /\ folderInput' = "" /\ edOutputFolder' = Null
  /\ folderError' = FALSE /\ targetSizeInput' = -1 /\ edTargetSize' = 0
  /\ sizeError' = FALSE

\* FileDropper as mounted: nothing dropped, nothing typed, no error.
DropperMounted ==
  /\ droppedFiles = <<>> /\ inputValue = 0 /\ dropError = Null

\* No interrupt so far: not armed, no timer, the process runs.
\* Setup and AutoCompress before they are rendered.
SetupUnmounted ==
  /\ setupStep = Null /\ setupChecked = <<>> /\ installMethods = <<>>
  /\ selectedIndex = 0 /\ installProc = <<>> /\ installCode = <<>>
  /\ recheck = <<>> /\ enterPressed = FALSE

AutoUnmounted ==
  /\ autoStep = Null /\ autoInfo = <<>> /\ autoSettings = <<>>
  /\ autoOutputPath = <<>> /\ autoResult = <<>>

\* index.tsx has rendered Main, which shows the App: 'sqsh' was started with
\* FFmpeg installed.
AppStarted ==
  /\ command = "interactive" /\ autoPath = <<>>
  /\ platform = "linux" /\ brewAvailable = FALSE /\ ffmpegPresent = TRUE
  /\ rendered = "Main" /\ startupCheck = <<TRUE>> /\ showApp = TRUE
  /\ SetupUnmounted /\ AutoUnmounted
  /\ exitCode = <<>>

NoInterrupt ==
  /\ exitWarning = FALSE /\ warningTimeout = FALSE /\ showThankYou = FALSE
  /\ exitTimer = {} /\ exited = FALSE

ClearCall ==
  /\ pc' = "idle" /\ settings' = <<>> /\ method' = Null
  /\ outputPath' = <<>> /\ duration' = 0 /\ started' = FALSE /\ nest' = 0

Init ==
  /\ step = "file-input" /\ files = <<>> /\ currentFileIndex = 1
  /\ quality = Null /\ removeInputFile = FALSE /\ advancedSettings = <<>>
  /\ EditorClosed
  /\ disk = InitialDisk({})
  /\ dirs = {InputDir, OutFolder}
  /\ NoCall
  /\ runs = 0 /\ submitted = 0 /\ faults = 0 /\ settled = <<>> /\ wrote = <<>>
  /\ deleteCalled = {} /\ deletedInput = {} /\ allocDirValid = TRUE
  /\ allocLog = <<>>
  /\ DropperMounted /\ enterTimers = {} /\ enterResult = Null
  /\ NoInterrupt
  /\ AppStarted
  /\ summary = <<>>

\* ------------------------------------------------------------ orchestrator
\* updateFile that merges the fields into every record.
updateFile_all(fs, index, updates) ==
  [i \in 1..Len(fs) |->
     [f \in DOMAIN fs[i] |->
        IF f \in DOMAIN updates THEN updates[f] ELSE fs[i][f]]]

\* updateFile: the record at index merged with the given fields.
updateFile(fs, index, updates) ==
  [i \in 1..Len(fs) |->
     IF i = index
     THEN [f \in DOMAIN fs[i] |->
             IF f \in DOMAIN updates THEN updates[f] ELSE fs[i][f]]
     ELSE fs[i]]

\* processFile after the await: the update of a resolved invocation.
\* CompletedUpdate that leaves the progress as last reported.
CompletedUpdate_asReported(result) ==
  [status |-> "completed", result |-> <<result>>]

\* CompletedUpdate that does not store the result.
CompletedUpdate_noResult(result) ==
  [status |-> "completed", progress |-> 100]

CompletedUpdate(result) ==
  [status |-> "completed", progress |-> 100, result |-> <<result>>]

\* processFile's first update that leaves the status alone.
CompressingUpdate_progressOnly == [progress |-> 0]

\* processFile before the invocation: the record is marked as compressing.
CompressingUpdate == [status |-> "compressing", progress |-> 0]

\* The loop of startCompression: the first index and the step to the next.
FirstIndex == 1
NextIndex(i) == i + 1

\* StartFile of a loop that does not await processFile: every remaining
\* record is marked at once.
StartFile_noAwait(fs, dsk, i, stg) ==
  /\ files' = [k \in 1..Len(fs) |->
                 IF k >= i
                 THEN updateFile(fs, k, CompressingUpdate)[k]
                 ELSE fs[k]]
  /\ currentFileIndex' = i
  /\ step' = "compressing"
  /\ settings' = stg
  /\ method' = Method(fs[i], stg)
  /\ outputPath' = generateOutputPath(dsk, fs[i].path, stg.advanced)
  /\ allocDirValid' = isValidDirectory(dirs, OutputDir(fs[i].path, stg.advanced))
  /\ pc' = FirstWait(Method(fs[i], stg))
  /\ duration' = 0 /\ started' = FALSE /\ nest' = 0

\* processFile(i) up to the first await of the invocation: the record is
\* marked, compress dispatches, the output path is allocated and the service
\* waits for ffprobe or for the encoder.
StartFile(fs, dsk, i, stg) ==
  /\ files' = updateFile(fs, i, CompressingUpdate)
  /\ currentFileIndex' = i
  /\ step' = "compressing"
  /\ settings' = stg
  /\ method' = Method(fs[i], stg)
  /\ outputPath' = generateOutputPath(dsk, fs[i].path, stg.advanced)
  /\ allocDirValid' = isValidDirectory(dirs, OutputDir(fs[i].path, stg.advanced))
  /\ pc' = FirstWait(Method(fs[i], stg))
  /\ duration' = 0 /\ started' = FALSE /\ nest' = 0

\* The loop leaving for 'compress-more' as soon as one file was processed.
Continue_first(fs, dsk, i, stg) ==
  IF i <= 1
  THEN StartFile(fs, dsk, i, stg)
  ELSE /\ files' = fs
       /\ step' = "compress-more"
       /\ pc' = "idle"
       /\ UNCHANGED <<currentFileIndex, settings, method, outputPath,
                      duration, started, nest, allocDirValid>>

\* The loop after the await of processFile(i - 1) returned: the next file, or
\* setStep('compress-more') after the last.
Continue(fs, dsk, i, stg) ==
  IF i <= Len(fs)
  THEN StartFile(fs, dsk, i, stg)
  ELSE /\ files' = fs
       /\ step' = "compress-more"
       /\ pc' = "idle"
       /\ UNCHANGED <<currentFileIndex, settings, method, outputPath,
                      duration, started, nest, allocDirValid>>

\* startCompression(advanced)
startCompression(advanced) ==
  LET stg == [quality |-> quality, removeInputFile |-> removeInputFile,
              advanced |-> IF advanced # <<>> THEN advanced ELSE advancedSettings]
  IN /\ runs' = runs + 1
     /\ settled' = [i \in 1..Len(files) |-> "none"]
     /\ wrote' = [i \in 1..Len(files) |-> 0]
     /\ deleteCalled' = {} /\ deletedInput' = {}
     /\ IF Len(files) = 0 \/ quality = Null
        THEN /\ step' = "compressing" /\ currentFileIndex' = 1
             /\ UNCHANGED <<files, callVars, allocDirValid>>
        ELSE Continue(files, disk, FirstIndex, stg)
     /\ UNCHANGED <<fsVars, submitted, faults, allocLog, dropVars, sigVars, summary, startVars>>

\* ------------------------------------------------- the dropper's hand-over
handleFilesSelected(selectedFiles) ==
  /\ runs < MaxRuns
  /\ submitted + Len(selectedFiles) <= MaxFiles
  /\ submitted' = submitted + Len(selectedFiles)
  /\ files' = selectedFiles
  /\ step' = "quality-select"
  /\ UNCHANGED <<currentFileIndex, quality, removeInputFile, advancedSettings,
                 edVars, fsVars, callVars, runs, faults, settled, wrote,
                 deleteCalled, deletedInput, allocDirValid, allocLog, sigVars,
                 summary, startVars>>

\* ------------------------------------------------------------ FileDropper
\* The component is rendered in step 'file-input' only. inputValue holds the
\* typed characters that are not a path of a supported file or of a
\* directory (such a path is taken over at once), kept as their number.
DropperActive == step = "file-input" /\ ~exited /\ runs < MaxRuns

\* useInput, text that completes the path of a supported file
DropFile(p) ==
  /\ DropperActive /\ inputValue = 0
  /\ getFileInfo(disk, p) # <<>>
  /\ submitted + Len(droppedFiles) < MaxFiles
  /\ droppedFiles' = AddDropped(droppedFiles, getFileInfo(disk, p)[1])
  /\ dropError' = IF droppedFiles' = droppedFiles THEN dropError
                  ELSE ValidationEffect(droppedFiles')
  /\ UNCHANGED <<appVars, edVars, fsVars, callVars, histVars, allocLog,
                 inputValue, enterTimers, enterResult, sigVars, summary, startVars>>

\* useInput, text that completes the path of a directory
DropFolder(d) ==
  LET folderFiles == getFilesFromFolder(disk, d)
  IN /\ DropperActive /\ inputValue = 0
     /\ isDirectory(dirs, d)
     /\ IF Len(folderFiles) = 0
        THEN /\ dropError' = EmptyFolderError
             /\ UNCHANGED droppedFiles
        ELSE /\ droppedFiles' = folderFiles
             /\ dropError' = ValidationEffect(folderFiles)
     /\ UNCHANGED <<appVars, edVars, fsVars, callVars, histVars, allocLog,
                    inputValue, enterTimers, enterResult, sigVars, summary, startVars>>

\* useInput, a character that completes no path
TypeText ==
  /\ DropperActive
  /\ inputValue < MaxType
  /\ inputValue' = inputValue + 1
  /\ UNCHANGED <<appVars, edVars, fsVars, callVars, histVars, allocLog,
                 droppedFiles, dropError, enterTimers, enterResult, sigVars,
                 summary, startVars>>

\* useInput, key.backspace: the last character, else the last file
Backspace ==
  /\ DropperActive
  /\ IF inputValue > 0
     THEN /\ inputValue' = inputValue - 1
          /\ UNCHANGED <<droppedFiles, dropError>>
     ELSE /\ Len(droppedFiles) > 0
          /\ droppedFiles' = SubSeq(droppedFiles, 1, Len(droppedFiles) - 1)
          /\ dropError' = ValidationEffect(droppedFiles')
          /\ UNCHANGED inputValue
  /\ UNCHANGED <<appVars, edVars, fsVars, callVars, histVars, allocLog,
                 enterTimers, enterResult, sigVars, summary, startVars>>

\* useInput, key.escape
Escape ==
  /\ DropperActive
  /\ droppedFiles # <<>> \/ inputValue # 0 \/ dropError # Null
  /\ droppedFiles' = <<>> /\ inputValue' = 0 /\ dropError' = Null
  /\ UNCHANGED <<appVars, edVars, fsVars, callVars, histVars, allocLog,
                 enterTimers, enterResult, sigVars, summary, startVars>>

\* useInput, key.return: the pending text is processed (it is no path) and
\* the 10 ms timeout is set; its callback keeps the droppedFiles of this
\* render.
Enter ==
  /\ DropperActive
  /\ droppedFiles \in enterTimers \/ Cardinality(enterTimers) < MaxTimers
  /\ inputValue' = 0
  /\ enterTimers' = enterTimers \cup {droppedFiles}
  /\ UNCHANGED <<appVars, edVars, fsVars, callVars, histVars, allocLog,
                 droppedFiles, dropError, enterResult, sigVars, summary, startVars>>

\* setError of the dropper; the component may be unmounted by now.
SetDropError(message) ==
  /\ dropError' = IF step = "file-input" THEN message ELSE dropError
  /\ UNCHANGED <<appVars, edVars, fsVars, callVars, histVars, allocLog,
                 droppedFiles, inputValue, sigVars, summary, startVars>>

\* EnterTimeout that hands the list over without validating it.
EnterTimeout_unchecked(captured) ==
  /\ ~exited
  /\ captured \in enterTimers
  /\ enterTimers' = enterTimers \ {captured}
  /\ IF Len(captured) = 0
     THEN SetDropError(NoFilesError) /\ enterResult' = "empty"
     ELSE /\ handleFilesSelected(toBatchFiles(captured))
          /\ droppedFiles' = <<>> /\ inputValue' = 0 /\ dropError' = Null
          /\ enterResult' = "accepted"

\* The callback of Enter's timeout.
EnterTimeout(captured) ==
  /\ ~exited
  /\ captured \in enterTimers
  /\ enterTimers' = enterTimers \ {captured}
  /\ IF Len(captured) = 0
     THEN SetDropError(NoFilesError) /\ enterResult' = "empty"
     ELSE IF ~validateBatchFiles(captured).valid
     THEN /\ SetDropError(IF validateBatchFiles(captured).error # Null
                          THEN validateBatchFiles(captured).error
                          ELSE InvalidFilesError)
          /\ enterResult' = "invalid"
     ELSE /\ handleFilesSelected(toBatchFiles(captured))
          /\ droppedFiles' = <<>> /\ inputValue' = 0 /\ dropError' = Null
          /\ enterResult' = "accepted"

\* ------------------------------------------------------- the App's steps
\* The next screen takes its first key after the dropper's 10 ms timeouts
\* have run out.
handleQualitySelected(selectedQuality) ==
  /\ ~exited
  /\ step = "quality-select"
  /\ enterTimers = {}
  /\ selectedQuality \in QualityLevel
  /\ quality' = selectedQuality
  /\ step' = "remove-input-prompt"
  /\ UNCHANGED <<files, currentFileIndex, removeInputFile, advancedSettings,
                 edVars, fsVars, callVars, histVars, allocLog, dropVars, sigVars, summary, startVars>>

handleRemoveInputSelected(remove) ==
  /\ ~exited
  /\ step = "remove-input-prompt"
  /\ removeInputFile' = remove
  /\ step' = "advanced-settings-prompt"
  /\ UNCHANGED <<files, currentFileIndex, quality, advancedSettings,
                 edVars, fsVars, callVars, histVars, allocLog, dropVars, sigVars, summary, startVars>>

handleAdvancedSettingsPrompt(wantAdvanced) ==
  /\ ~exited
  /\ step = "advanced-settings-prompt"
  /\ IF wantAdvanced
     THEN /\ step' = "advanced-settings"
          /\ UNCHANGED <<files, currentFileIndex, callVars, histVars,
                         fsVars, allocLog, dropVars, sigVars, summary, startVars>>
     ELSE startCompression(<<>>)
  /\ UNCHANGED <<quality, removeInputFile, advancedSettings, edVars>>

\* ------------------------------------------------- AdvancedSettingsEditor
\* Typing replaces the text of the input box (the key-by-key edits of
\* handleFolderInput / handleTargetSizeInput) and clears the error.
TypeFolder(text) ==
  /\ ~exited
  /\ step = "advanced-settings" /\ edStep = "output-folder"
  /\ text # folderInput
  /\ folderInput' = text
  /\ folderError' = FALSE
  /\ UNCHANGED <<appVars, edStep, edOutputFolder, targetSizeInput, edTargetSize,
                 sizeError, fsVars, callVars, histVars, allocLog, dropVars, sigVars, summary, startVars>>

\* handleFolderInput, key.return
handleFolderInput ==
  /\ ~exited
  /\ step = "advanced-settings" /\ edStep = "output-folder"
  /\ IF folderInput = ""
     THEN /\ edOutputFolder' = Null /\ edStep' = "target-size"
          /\ UNCHANGED folderError
     ELSE IF isValidDirectory(dirs, folderInput)
     THEN /\ edOutputFolder' = folderInput /\ edStep' = "target-size"
          /\ UNCHANGED folderError
     ELSE /\ folderError' = TRUE
          /\ UNCHANGED <<edOutputFolder, edStep>>
  /\ UNCHANGED <<appVars, folderInput, targetSizeInput, edTargetSize, sizeError,
                 fsVars, callVars, histVars, allocLog, dropVars, sigVars, summary, startVars>>

TypeTargetSize(text) ==
  /\ ~exited
  /\ step = "advanced-settings" /\ edStep = "target-size"
  /\ text # targetSizeInput
  /\ targetSizeInput' = text
  /\ sizeError' = FALSE
  /\ UNCHANGED <<appVars, edStep, folderInput, edOutputFolder, folderError,
                 edTargetSize, fsVars, callVars, histVars, allocLog, dropVars, sigVars, summary, startVars>>

\* handleTargetSizeInput, key.return; fileInfo is the first file of the batch
handleTargetSizeInput ==
  LET sizeUnit == getFileSizeUnit(files[1].size)
      currentSize == bytesToUnit(files[1].size, sizeUnit)
  IN /\ ~exited
     /\ step = "advanced-settings" /\ edStep = "target-size"
     /\ IF targetSizeInput = -1
        THEN /\ edTargetSize' = 0 /\ edStep' = "file-format"
             /\ UNCHANGED sizeError
        ELSE IF targetSizeInput <= 0 \/ targetSizeInput >= currentSize
        THEN /\ sizeError' = TRUE
             /\ UNCHANGED <<edTargetSize, edStep>>
        ELSE /\ edTargetSize' = unitToBytes(targetSizeInput, sizeUnit)
             /\ edStep' = "file-format"
             /\ UNCHANGED sizeError
     /\ UNCHANGED <<appVars, folderInput, edOutputFolder, folderError,
                    targetSizeInput, fsVars, callVars, histVars, allocLog, dropVars, sigVars, summary, startVars>>

\* handleFormatInput, key.return on the selected format, then
\* handleAdvancedSettingsComplete
handleFormatInput(selectedFormat) ==
  LET adv == [outputFolder |-> edOutputFolder,
              targetSize |-> edTargetSize,
              targetSizeUnit |-> getFileSizeUnit(files[1].size),
              outputFormat |-> IF selectedFormat = files[1].extension
                               THEN <<>> ELSE selectedFormat]
  IN /\ ~exited
     /\ step = "advanced-settings" /\ edStep = "file-format"
     /\ selectedFormat \in getFormatOptions(files[1].type)
     /\ advancedSettings' = <<adv>>
     /\ startCompression(<<adv>>)
     /\ CloseEditor
     /\ UNCHANGED <<quality, removeInputFile>>

\* ------------------------------------------- events of the invocation
cur == currentFileIndex

\* A catch that ends the loop: the remaining files are left alone.
Rejected_abort(err, dsk) ==
  /\ settled' = [settled EXCEPT ![cur] = "rejected"]
  /\ Continue(updateFile(files, cur,
                [status |-> "error", error |-> <<CaughtMessage(err)>>]),
              dsk, Len(files) + 1, settings)

\* processFile's catch, then the loop goes on
Rejected(err, dsk) ==
  /\ settled' = [settled EXCEPT ![cur] = "rejected"]
  /\ Continue(updateFile(files, cur,
                [status |-> "error", error |-> <<CaughtMessage(err)>>]),
              dsk, NextIndex(cur), settings)

\* ffprobe calls back (getVideoDuration / getAudioDuration): with the
\* duration (metadata.format.duration || 0) or with an error.
ProbeOk(d) ==
  /\ ~exited
  /\ pc = "probing"
  /\ IF method = "audioTarget"
        /\ IsLossless(getOutputFormat(files[cur], settings.advanced))
     THEN \* falls back to compressAudio, which allocates again and, the
          \* target size still being set, probes again
          /\ nest < MaxNest
          /\ nest' = nest + 1
          /\ outputPath' = generateOutputPath(disk, files[cur].path, settings.advanced)
          /\ allocDirValid' =
               isValidDirectory(dirs, OutputDir(files[cur].path, settings.advanced))
          /\ UNCHANGED <<pc, duration>>
     ELSE /\ pc' = "encoding"
          /\ duration' = d
          /\ UNCHANGED <<nest, outputPath, allocDirValid>>
  /\ UNCHANGED <<appVars, edVars, fsVars, settings, method, started,
                 runs, submitted, faults, settled, wrote, deleteCalled, deletedInput,
                 allocLog, dropVars, sigVars, summary, startVars>>

ProbeFail(err) ==
  /\ ~exited
  /\ pc = "probing"
  /\ IF method = "audio"
     THEN \* compressAudio goes on without a duration
          /\ pc' = "encoding"
          /\ UNCHANGED <<appVars, settings, method, outputPath, duration,
                         started, nest, settled, allocDirValid>>
     ELSE /\ Rejected(err, disk)
          /\ UNCHANGED <<quality, removeInputFile, advancedSettings>>
  /\ UNCHANGED <<edVars, fsVars, runs, submitted, faults, wrote, deleteCalled,
                 deletedInput, allocLog, dropVars, sigVars, summary, startVars>>

\* 'codecData' of compressVideo
CodecData(d) ==
  /\ ~exited
  /\ pc = "encoding" /\ method = "video"
  /\ duration # d
  /\ duration' = d
  /\ UNCHANGED <<appVars, edVars, fsVars, pc, settings, method, outputPath,
                 started, nest, histVars, allocLog, dropVars, sigVars, summary, startVars>>

\* 'progress' of the video and audio methods
Progress(timemark) ==
  /\ ~exited
  /\ pc = "encoding" /\ method # "image"
  /\ duration > 0
  /\ files' = updateFile(files, cur, [progress |-> Percentage(parseTimeToSeconds(timemark), duration)])
  /\ UNCHANGED <<step, currentFileIndex, quality, removeInputFile, advancedSettings,
                 edVars, fsVars, callVars, histVars, allocLog, dropVars, sigVars, summary, startVars>>

\* 'start' and 'progress' of compressImage
ImageStart ==
  /\ ~exited
  /\ pc = "encoding" /\ method = "image" /\ ~started
  /\ started' = TRUE
  /\ files' = updateFile(files, cur, [progress |-> 10])
  /\ UNCHANGED <<step, currentFileIndex, quality, removeInputFile, advancedSettings,
                 edVars, fsVars, pc, settings, method, outputPath, duration, nest,
                 histVars, allocLog, dropVars, sigVars, summary, startVars>>

ImageProgress ==
  /\ ~exited
  /\ pc = "encoding" /\ method = "image" /\ started
  /\ files[cur].progress # 70
  /\ files' = updateFile(files, cur, [progress |-> 70])
  /\ UNCHANGED <<step, currentFileIndex, quality, removeInputFile, advancedSettings,
                 edVars, fsVars, callVars, histVars, allocLog, dropVars, sigVars, summary, startVars>>

\* The encoder can run to its 'end' only with usable parameters and an
\* existing destination directory.
EncoderCanEnd ==
  /\ outputPath.dir \in dirs
  /\ ~(method \in {"videoTarget", "audioTarget"} /\ duration = 0)

\* 'end': the encoder left an output of outputSize bytes; the unlink of the
\* output and the unlink of the input succeed or fail.
EncoderEnd(outputSize, unlinkOutputOk, unlinkInputOk) ==
  LET disk1 == WriteFile(disk, outputPath, outputSize)
      result == calculateResult(disk1, files[cur], outputPath)
      disk2 == DiskAfterResult(disk1, files[cur], outputPath, unlinkOutputOk)
      remove == ShouldRemoveInput(settings, result)
      del == deleteFile(disk2, files[cur].path, unlinkInputOk)
      disk3 == IF remove THEN del.disk ELSE disk2
      final == ResultAfterRemoval(settings, result)
      failed == (IF result.alreadyOptimized /\ ~unlinkOutputOk THEN 1 ELSE 0)
                  + (IF remove /\ ~unlinkInputOk THEN 1 ELSE 0)
  IN /\ ~exited
     /\ pc = "encoding" /\ EncoderCanEnd
     /\ unlinkOutputOk \/ result.alreadyOptimized
     /\ unlinkInputOk \/ remove
     /\ faults + failed <= MaxFaults
     /\ faults' = faults + failed
     /\ disk' = disk3
     /\ wrote' = [wrote EXCEPT ![cur] = outputSize]
     /\ settled' = [settled EXCEPT ![cur] = "resolved"]
     /\ deleteCalled' = IF remove THEN deleteCalled \cup {cur} ELSE deleteCalled
     /\ deletedInput' = IF remove /\ del.returned THEN deletedInput \cup {cur}
                        ELSE deletedInput
     /\ Continue(updateFile(files, cur, CompletedUpdate(final)),
                 disk3, NextIndex(cur), settings)
     /\ UNCHANGED <<quality, removeInputFile, advancedSettings, edVars, dirs,
                    runs, submitted, allocLog, dropVars, sigVars, summary, startVars>>

\* 'end' without an output file at outputPath: statSync throws inside the
\* event handler, the promise is never settled.
EncoderEndNoOutput ==
  /\ ~exited
  /\ pc = "encoding" /\ EncoderCanEnd
  /\ StatThrows(disk, outputPath)
  /\ pc' = "crashed"
  /\ files' = IF method = "image"
              THEN updateFile(files, cur, [progress |-> 100]) ELSE files
  /\ UNCHANGED <<step, currentFileIndex, quality, removeInputFile, advancedSettings,
                 edVars, fsVars, settings, method, outputPath, duration, started,
                 nest, histVars, allocLog, dropVars, sigVars, summary, startVars>>

\* 'error': the encoder failed, possibly leaving a partial output
EncoderError(message, partial) ==
  LET disk1 == IF partial > 0 /\ outputPath.dir \in dirs
               THEN WriteFile(disk, outputPath, partial) ELSE disk
  IN /\ ~exited
     /\ pc = "encoding"
     /\ disk' = disk1
     /\ Rejected([isError |-> TRUE, message |-> FFmpegError(message)], disk1)
     /\ UNCHANGED <<quality, removeInputFile, advancedSettings, edVars, dirs,
                    runs, submitted, faults, wrote, deleteCalled, deletedInput,
                    allocLog, dropVars, sigVars, summary, startVars>>

\* --------------------------------------------------- the App's render
isBatchMode == Len(files) > 1

\* singleResult, <<>> for null
singleResult ==
  IF Len(files) = 1 /\ files[1].result # <<>> THEN files[1].result ELSE <<>>

\* CompressMore is rendered with the batch summary, or with the summary of
\* a single result
CompressMoreRendered ==
  step = "compress-more" /\ (isBatchMode \/ singleResult # <<>>)

\* The failure texts on the screen at 'compress-more': the rows of
\* BatchSummary (file.error || 'failed'); Summary has none.
ShownErrors ==
  IF step = "compress-more" /\ isBatchMode
  THEN {[name |-> files[i].name,
         text |-> IF files[i].error # <<>> /\ files[i].error[1] # ""
                  THEN files[i].error[1] ELSE "failed"] :
          i \in {j \in 1..Len(files) : files[j].status = "error"}}
  ELSE {}

\* handleCompressMore that keeps removeInputFile and the advanced settings.
handleCompressMore_keep ==
  /\ ~exited
  /\ CompressMoreRendered
  /\ files' = <<>> /\ currentFileIndex' = 1 /\ quality' = Null
  /\ step' = "file-input"
  /\ ClearCall
  /\ settled' = <<>> /\ wrote' = <<>> /\ deleteCalled' = {} /\ deletedInput' = {}
  /\ allocDirValid' = TRUE
  /\ summary' = <<>>
  /\ UNCHANGED <<removeInputFile, advancedSettings, edVars, fsVars, runs, submitted,
                 faults, allocLog, dropVars, sigVars, startVars>>

\* handleCompressMore: CompressMore's onConfirm
handleCompressMore ==
  /\ ~exited
  /\ CompressMoreRendered
  /\ files' = <<>> /\ currentFileIndex' = 1 /\ quality' = Null
  /\ removeInputFile' = FALSE /\ advancedSettings' = <<>>
  /\ step' = "file-input"
  /\ ClearCall
  /\ settled' = <<>> /\ wrote' = <<>> /\ deleteCalled' = {} /\ deletedInput' = {}
  /\ allocDirValid' = TRUE
  /\ summary' = <<>>
  /\ UNCHANGED <<edVars, fsVars, runs, submitted, faults, allocLog, dropVars, sigVars,
                 startVars>>

\* The App's render at 'compress-more' in batch mode: BatchSummary computes
\* its numbers from the records.
RenderBatchSummary ==
  /\ ~exited
  /\ step = "compress-more" /\ Len(files) > 1
  /\ summary = <<>>
  /\ summary' = <<BatchSummary(files)>>
  /\ UNCHANGED <<appVars, edVars, fsVars, callVars, histVars, allocLog, dropVars, sigVars,
                 startVars>>

\* handleExit: CompressMore's onCancel
handleExit ==
  /\ ~exited
  /\ CompressMoreRendered
  /\ showThankYou' = TRUE
  /\ exitTimer' = exitTimer \cup {"cancel"}
  /\ UNCHANGED <<appVars, edVars, fsVars, callVars, histVars, allocLog, dropVars,
                 exitWarning, warningTimeout, exited, summary, startVars>>

\* ------------------------------------------------------------- interrupts
\* handleSigInt's else branch: the warning is set and the 3 s timer that
\* resets it is started.
ArmWarning == [exitWarning |-> TRUE, warningTimeout |-> TRUE]

\* The cleanup of the effect, which the render after setExitWarning(true)
\* runs because exitWarning is a dependency: clearTimeout(warningTimeout).
EffectCleanup(st) == [st EXCEPT !.warningTimeout = FALSE]

\* handleSigInt that exits whether or not the warning is shown.
SigInt_once ==
  /\ ~exited
  /\ showThankYou' = TRUE
  /\ exitTimer' = exitTimer \cup {"sigint"}
  /\ UNCHANGED <<exitWarning, warningTimeout>>
  /\ UNCHANGED <<appVars, edVars, fsVars, callVars, histVars, allocLog, dropVars,
                 exited, summary, startVars>>

\* SIGINT: handleSigInt and the render that follows it.
SigInt ==
  /\ ~exited
  /\ IF exitWarning
     THEN /\ showThankYou' = TRUE
          /\ exitTimer' = exitTimer \cup {"sigint"}
          /\ UNCHANGED <<exitWarning, warningTimeout>>
     ELSE LET st == EffectCleanup(ArmWarning)
          IN /\ exitWarning' = st.exitWarning
             /\ warningTimeout' = st.warningTimeout
             /\ UNCHANGED <<showThankYou, exitTimer>>
  /\ UNCHANGED <<appVars, edVars, fsVars, callVars, histVars, allocLog, dropVars,
                 exited, summary, startVars>>

\* The 1 s timer of handleSigInt or handleExit: process.exit(0)
ProcessExit ==
  /\ ~exited
  /\ exitTimer # {}
  /\ exited' = TRUE /\ exitCode' = <<0>>
  /\ UNCHANGED <<appVars, edVars, fsVars, callVars, histVars, allocLog, dropVars,
                 exitWarning, warningTimeout, showThankYou, exitTimer, summary, bootVars>>

\* The output folder is removed by another process.
DirRemoved ==
  /\ OutFolder \in dirs
  /\ faults < MaxFaults
  /\ faults' = faults + 1
  /\ \/ step = "advanced-settings"
     \/ step = "compressing" /\ pc # "crashed" /\ outputPath.dir = OutFolder
  /\ dirs' = dirs \ {OutFolder}
  /\ UNCHANGED <<appVars, edVars, disk, callVars, runs, submitted, settled, wrote, deleteCalled,
                 deletedInput, allocDirValid, allocLog, dropVars, sigVars, summary, startVars>>

Next ==
  \/ \E p \in Droppable : DropFile(p)
  \/ \E d \in DropFolders : DropFolder(d)
  \/ TypeText
  \/ Backspace
  \/ Escape
  \/ Enter
  \/ \E c \in enterTimers : EnterTimeout(c)
  \/ \E q \in QualityChoices : handleQualitySelected(q)
  \/ \E r \in BOOLEAN : handleRemoveInputSelected(r)
  \/ \E w \in BOOLEAN : handleAdvancedSettingsPrompt(w)
  \/ \E t \in FolderTexts : TypeFolder(t)
  \/ handleFolderInput
  \/ \E t \in TargetTexts : TypeTargetSize(t)
  \/ handleTargetSizeInput
  \/ \E f \in FormatChoices("video") \cup FormatChoices("image") \cup FormatChoices("audio") :
       handleFormatInput(f)
  \/ \E d \in Durations : ProbeOk(d)
  \/ \E e \in ProbeErrors : ProbeFail(e)
  \/ \E d \in Durations : CodecData(d)
  \/ \E t \in Timemarks : Progress(t)
  \/ ImageStart
  \/ ImageProgress
  \/ \E s \in OutSizes, uo \in BOOLEAN, ui \in BOOLEAN : EncoderEnd(s, uo, ui)
  \/ EncoderEndNoOutput
  \/ \E m \in EncoderMessages, p \in PartialSizes : EncoderError(m, p)
  \/ RenderBatchSummary
  \/ handleCompressMore
  \/ handleExit
  \/ SigInt
  \/ ProcessExit
  \/ DirRemoved

Spec == Init /\ [][Next]_vars

\* ------------------------------------------- the allocator on its own
\* generateOutputPath called again and again on a disk that starts with any
\* of the earlier outputs and gains every output that was allocated.
AllocInputs == {join(InputDir, Name_a_mp4), join(InputDir, Name_a_MOV)}

AllocAdvanced ==
  {<<>>} \cup
  {<<[outputFolder |-> f, targetSize |-> 0, targetSizeUnit |-> "KB",
      outputFormat |-> fmt]>> :
     f \in {Null, OutFolder}, fmt \in {<<>>, Fmt_mp4, Fmt_webm}}

EarlierOutputs == {Name_a_sqshed_mp4, Name_a_sqshed_1_mp4}

InitAlloc ==
  /\ step = "file-input" /\ files = <<>> /\ currentFileIndex = 1
  /\ quality = Null /\ removeInputFile = FALSE /\ advancedSettings = <<>>
  /\ EditorClosed
  /\ \E earlier \in SUBSET EarlierOutputs : disk = InitialDisk(earlier)
  /\ dirs = {InputDir, OutFolder}
  /\ NoCall
  /\ runs = 0 /\ submitted = 0 /\ faults = 0 /\ settled = <<>> /\ wrote = <<>>
  /\ deleteCalled = {} /\ deletedInput = {} /\ allocDirValid = TRUE
  /\ allocLog = <<>>
  /\ DropperMounted /\ enterTimers = {} /\ enterResult = Null
  /\ NoInterrupt
  /\ AppStarted
  /\ summary = <<>>

Allocate(inputPath, advanced) ==
  LET p == generateOutputPath(disk, inputPath, advanced)
  IN /\ Len(allocLog) < MaxAllocs
     /\ existsSync(disk, inputPath)
     /\ allocLog' = Append(allocLog, [input |-> inputPath, advanced |-> advanced,
                                      path |-> p, existing |-> DOMAIN disk])
     /\ disk' = WriteFile(disk, p, KB)
     /\ UNCHANGED <<appVars, edVars, dirs, callVars, histVars, dropVars, sigVars, summary, startVars>>

NextAlloc == \E i \in AllocInputs, a \in AllocAdvanced : Allocate(i, a)

SpecAlloc == InitAlloc /\ [][NextAlloc]_vars

\* ------------------------------------------------------------ properties
\* --------------------------------------------- the summary on its own
\* BatchSummary rendered for any batch of records a run can leave or be in:
\* pending, compressing, failed, completed smaller, completed already optimized.
SummarySizes == {0} \cup {k * KB : k \in 1..(MaxSize - 1)}

SummaryRecords(p) ==
  UNION {
    LET fileInfo == [path |-> p, name |-> p.name, size |-> s, type |-> "video",
                     extension |-> Fmt_mp4]
        base == toBatchFile(fileInfo)
        out == join(InputDir, Name_a_sqshed_mp4)
    IN {base,
        [base EXCEPT !.status = "compressing", !.progress = 50],
        [base EXCEPT !.status = "error", !.error = <<"ffmpeg exited with code 1">>]}
       \cup
       {[base EXCEPT !.status = "completed", !.progress = 100,
                     !.result = <<calculateResult(WriteFile(InitialDisk({}), out, o),
                                                  fileInfo, out)>>] : o \in OutSizes}
    : s \in SummarySizes }

SummaryBatches ==
  {<<r1, r2>> : r1 \in SummaryRecords(join(InputDir, Name_a_mp4)),
                r2 \in SummaryRecords(join(InputDir, Name_a_MOV))}

InitSummary ==
  /\ step = "compress-more" /\ files \in SummaryBatches /\ currentFileIndex = 2
  /\ quality = "medium" /\ removeInputFile = FALSE /\ advancedSettings = <<>>
  /\ EditorClosed
  /\ disk = InitialDisk({})
  /\ dirs = {InputDir, OutFolder}
  /\ NoCall
  /\ runs = 1 /\ submitted = 2 /\ faults = 0
  /\ settled = <<"none", "none">> /\ wrote = <<0, 0>>
  /\ deleteCalled = {} /\ deletedInput = {} /\ allocDirValid = TRUE
  /\ allocLog = <<>>
  /\ DropperMounted /\ enterTimers = {} /\ enterResult = Null
  /\ NoInterrupt
  /\ AppStarted
  /\ summary = <<>>

NextSummary == RenderBatchSummary

SpecSummary == InitSummary /\ [][NextSummary]_vars

\* ------------------------------------------------- the session after a run
\* The App at 'compress-more' after a run of a.mp4 with removeInputFile and a
\* target size of 1 KB, which the encoder met: the user goes on from there.
FirstRunAdvanced ==
  [outputFolder |-> Null, targetSize |-> KB, targetSizeUnit |-> "KB",
   outputFormat |-> <<>>]

FirstRunSettings ==
  [quality |-> "medium", removeInputFile |-> TRUE, advanced |-> <<FirstRunAdvanced>>]

InitAgain ==
  LET input == join(InputDir, Name_a_mp4)
      fileInfo == getFileInfo(InitialDisk({}), input)[1]
      out == generateOutputPath(InitialDisk({}), input, <<FirstRunAdvanced>>)
      disk1 == WriteFile(InitialDisk({}), out, KB)
      result == ResultAfterRemoval(FirstRunSettings,
                                   calculateResult(disk1, fileInfo, out))
  IN /\ step = "compress-more"
     /\ files = updateFile(toBatchFiles(<<fileInfo>>), 1, CompletedUpdate(result))
     /\ currentFileIndex = 1
     /\ quality = "medium" /\ removeInputFile = TRUE
     /\ advancedSettings = <<FirstRunAdvanced>>
     /\ EditorClosed
     /\ disk = deleteFile(disk1, input, TRUE).disk
     /\ dirs = {InputDir, OutFolder}
     /\ pc = "idle" /\ settings = FirstRunSettings /\ method = "videoTarget"
     /\ outputPath = out /\ duration = 2 /\ started = FALSE /\ nest = 0
     /\ runs = 0 /\ submitted = 0 /\ faults = 0
     /\ settled = <<"resolved">> /\ wrote = <<KB>>
     /\ deleteCalled = {1} /\ deletedInput = {1} /\ allocDirValid = TRUE
     /\ allocLog = <<>>
     /\ DropperMounted /\ enterTimers = {} /\ enterResult = Null
     /\ NoInterrupt
     /\ AppStarted
  /\ AppStarted
     /\ summary = <<>>

SpecAgain == InitAgain /\ [][Next]_vars

\* ------------------------------------- a session next to an earlier output
\* The App started in a folder that still holds a-sqshed.mp4, the output of
\* an earlier session, next to its source a.mp4; a.MOV is not there.
InitRerun ==
  /\ step = "file-input" /\ files = <<>> /\ currentFileIndex = 1
  /\ quality = Null /\ removeInputFile = FALSE /\ advancedSettings = <<>>
  /\ EditorClosed
  /\ disk = RemoveFile(InitialDisk({Name_a_sqshed_mp4}), join(InputDir, Name_a_MOV))
  /\ dirs = {InputDir, OutFolder}
  /\ NoCall
  /\ runs = 0 /\ submitted = 0 /\ faults = 0 /\ settled = <<>> /\ wrote = <<>>
  /\ deleteCalled = {} /\ deletedInput = {} /\ allocDirValid = TRUE
  /\ allocLog = <<>>
  /\ DropperMounted /\ enterTimers = {} /\ enterResult = Null
  /\ NoInterrupt
  /\ AppStarted
  /\ summary = <<>>

SpecRerun == InitRerun /\ [][Next]_vars

Terminal == {"completed", "error"}

HasResult(i) == files[i].result # <<>>
ResultOf(i) == files[i].result[1]

\* C1: files are processed strictly in list order with no overlap: at most
\* one record is 'compressing', and a record has left 'pending' only when
\* every record before it is 'completed' or 'error'.
C1_Sequential ==
  /\ Cardinality({i \in 1..Len(files) : files[i].status = "compressing"}) <= 1
  /\ \A i, j \in 1..Len(files) :
       (i < j /\ files[j].status # "pending") => files[i].status \in Terminal

C1_Witness ==
  /\ Len(files) = 2
  /\ files[1].status \in Terminal
  /\ files[2].status = "compressing"

\* C2: a record whose invocation rejected is 'error' with a non-empty message
\* and no result, the file after it has been started, and after a rejection
\* of the last file the step is 'compress-more'.
C2_FailureContinues ==
  \A i \in DOMAIN settled :
    settled[i] = "rejected" =>
      /\ files[i].status = "error"
      /\ files[i].error # <<>> /\ files[i].error[1] # ""
      /\ files[i].result = <<>>
      /\ i < Len(files) => files[i + 1].status # "pending"
      /\ i = Len(files) => step = "compress-more"

C2_Witness ==
  /\ step = "compress-more" /\ Len(files) = 2
  /\ settled[1] = "rejected" /\ files[1].status = "error"
  /\ files[2].status = "completed"

\* C3: a result that is not alreadyOptimized has outputSize < inputSize and
\* savedBytes > 0, outputSize being the size the encoder wrote.
C3_SmallerUnlessOptimized ==
  \A i \in 1..Len(files) :
    (HasResult(i) /\ ~ResultOf(i).alreadyOptimized) =>
      /\ ResultOf(i).inputSize = files[i].size
      /\ ResultOf(i).outputSize = wrote[i]
      /\ ResultOf(i).outputSize < ResultOf(i).inputSize
      /\ ResultOf(i).savedBytes > 0

C3_Witness ==
  \E i \in 1..Len(files) :
    HasResult(i) /\ ~ResultOf(i).alreadyOptimized /\ wrote[i] = KB

\* C4: an alreadyOptimized result points back at the input (outputPath =
\* inputPath, outputSize = inputSize, savedBytes = 0, savedPercentage = 0),
\* and a result is alreadyOptimized exactly when the encoder's output was
\* not smaller than the input.
C4_OptimizedShape ==
  \A i \in 1..Len(files) :
    HasResult(i) =>
      /\ ResultOf(i).alreadyOptimized =>
           /\ ResultOf(i).outputPath = ResultOf(i).inputPath
           /\ ResultOf(i).inputPath = files[i].path
           /\ ResultOf(i).outputSize = ResultOf(i).inputSize
           /\ ResultOf(i).inputSize = files[i].size
           /\ ResultOf(i).savedBytes = 0
           /\ ResultOf(i).savedPercentage = 0
      /\ ResultOf(i).alreadyOptimized <=> (wrote[i] >= files[i].size)

C4_Witness ==
  \E i \in 1..Len(files) :
    HasResult(i) /\ ResultOf(i).alreadyOptimized /\ wrote[i] > files[i].size

\* C5: when the encoder ends with an output that is not smaller than the
\* input, no file is left at the allocated output path once the invocation
\* has resolved.
C5_NoArtifactLeft ==
  [][(/\ pc = "encoding"
      /\ Len(settled') = Len(settled)
      /\ settled[cur] = "none" /\ settled'[cur] = "resolved"
      /\ wrote'[cur] >= files[cur].size)
       => ~existsSync(disk', outputPath)]_vars

\* C6: deleteFile is called on an input only with removeInputFile set and a
\* computed result that is not alreadyOptimized; an alreadyOptimized result
\* leaves the source on disk and inputFileRemoved unset.
C6_InputDeletionGuard ==
  \A i \in DOMAIN settled :
    /\ i \in deleteCalled =>
         /\ removeInputFile
         /\ HasResult(i) /\ ~ResultOf(i).alreadyOptimized
    /\ (HasResult(i) /\ ResultOf(i).alreadyOptimized) =>
         /\ i \notin deleteCalled
         /\ ~ResultOf(i).inputFileRemoved
         /\ existsSync(disk, files[i].path)
    /\ ~HasResult(i) => existsSync(disk, files[i].path)

C6_Witness ==
  \E i \in DOMAIN settled :
    /\ removeInputFile
    /\ HasResult(i) /\ ResultOf(i).alreadyOptimized
    /\ existsSync(disk, files[i].path)

\* C7: inputFileRemoved is true only if the deletion was requested and the
\* input file was actually removed from disk.
C7_RemovedOnlyIfDeleted ==
  \A i \in DOMAIN settled :
    (HasResult(i) /\ ResultOf(i).inputFileRemoved) =>
      /\ removeInputFile
      /\ i \in deletedInput
      /\ ~existsSync(disk, files[i].path)

\* The name the allocator tries as number k for a logged allocation.
Candidate(e, k) ==
  join(OutputDir(e.input, e.advanced),
       OutputName(basename(e.input.name, extname(e.input.name)) \o Sqshed, k,
                  OutputExt(e.input, e.advanced)))

\* C8: the allocated path did not exist at the call, it is the first free of
\* '<base>-sqshed<ext>', '<base>-sqshed-1<ext>', ..., and allocations against
\* the growing set of created outputs are pairwise distinct.
C8_FreshPath ==
  \A i \in DOMAIN allocLog :
    /\ allocLog[i].path \notin allocLog[i].existing
    /\ \E k \in 0..Cardinality(allocLog[i].existing) :
         /\ allocLog[i].path = Candidate(allocLog[i], k)
         /\ \A j \in 0..(k - 1) : Candidate(allocLog[i], j) \in allocLog[i].existing
    /\ \A j \in DOMAIN allocLog : j # i => allocLog[j].path # allocLog[i].path

C8_Witness ==
  \E i \in DOMAIN allocLog :
    /\ i >= 2
    /\ allocLog[i].path = Candidate(allocLog[i], 2)
    /\ Candidate(allocLog[i], 1) \in allocLog[i].existing

\* C9 as stated: an allocation with an explicit outputFolder is made only
\* when that folder is an existing directory.
C9_AllocationValidates ==
  (/\ pc \in {"probing", "encoding"}
   /\ settings.advanced # <<>>
   /\ settings.advanced[1].outputFolder # Null) => allocDirValid

\* C9 amended: the folder is checked when it is entered in the editor: a
\* folder is stored only if it is the typed text and an existing directory,
\* and a typed text that is not a directory keeps the editor on the folder
\* step with no folder stored.
C9_FolderCheckedAtEntry ==
  [][(step = "advanced-settings" /\ edStep = "output-folder") =>
       /\ (edStep' = "target-size" /\ edOutputFolder' # Null) =>
            (edOutputFolder' = folderInput /\ folderInput \in dirs)
       /\ (folderInput # "" /\ folderInput \notin dirs) =>
            (edStep' = "output-folder" /\ edOutputFolder' = Null)]_vars

C9_Witness ==
  /\ step = "advanced-settings" /\ edStep = "output-folder"
  /\ folderError /\ folderInput \notin dirs /\ edOutputFolder = Null

\* C10: the allocated path lies in advanced.outputFolder when set, else in
\* the input's directory; its extension is advanced.outputFormat when set,
\* else the input's; its name starts with the input's name without extension
\* followed by '-sqshed'.
C10_PathShape ==
  \A i \in DOMAIN allocLog :
    LET e == allocLog[i]
        folderSet == e.advanced # <<>> /\ e.advanced[1].outputFolder # Null
        formatSet == e.advanced # <<>> /\ e.advanced[1].outputFormat # <<>>
        stem == SubSeq(e.input.name, 1, LastDot(e.input.name) - 1)
    IN /\ e.path.dir = (IF folderSet THEN e.advanced[1].outputFolder ELSE e.input.dir)
       /\ extname(e.path.name) =
            (IF formatSet THEN Dot \o e.advanced[1].outputFormat
             ELSE extname(e.input.name))
       /\ StartsWith(e.path.name, stem \o Sqshed)

C10_Witness ==
  \E i \in DOMAIN allocLog :
    /\ allocLog[i].advanced # <<>>
    /\ allocLog[i].advanced[1].outputFolder = OutFolder
    /\ allocLog[i].advanced[1].outputFormat = Fmt_webm
    /\ allocLog[i].path.dir = OutFolder


SameCategory(fs) == \A i, j \in 1..Len(fs) : fs[i].type = fs[j].type

\* C11: the App's list never mixes categories, and an Enter timeout whose
\* selection mixes categories hands nothing over: files and step stay as
\* they are and the dropper, while shown, gets a validation error.
C11_MixedRejected ==
  [][/\ SameCategory(files')
     /\ \A c \in enterTimers :
          (~SameCategory(c) /\ c \notin enterTimers') =>
            /\ files' = files /\ step' = step
            /\ step = "file-input" => dropError' # Null]_vars

C11_Witness ==
  /\ step = "file-input" /\ files = <<>>
  /\ enterResult = "invalid"
  /\ dropError = MixedTypesError
  /\ Len(droppedFiles) = 2 /\ ~SameCategory(droppedFiles)

\* C12: while a record is 'compressing', each update leaves its progress in
\* 0..100 and not below the progress it had.
C12_ProgressMonotone ==
  [][\A i \in 1..Len(files) :
       (/\ Len(files') = Len(files)
        /\ files[i].status = "compressing"
        /\ files'[i].status = "compressing") =>
         /\ files'[i].progress \in 0..100
         /\ files'[i].progress >= files[i].progress]_vars

\* C13: a record that enters 'compressing' has progress 0, and a record
\* whose invocation resolves is 'completed' with a result and progress 100.
C13_ProgressEnds ==
  [][\A i \in 1..Len(files) :
       Len(files') = Len(files) =>
         /\ (files[i].status # "compressing" /\ files'[i].status = "compressing")
              => files'[i].progress = 0
         /\ (/\ Len(settled) = Len(files) /\ Len(settled') = Len(files)
             /\ settled[i] = "none" /\ settled'[i] = "resolved") =>
              /\ files'[i].status = "completed"
              /\ files'[i].result # <<>>
              /\ files'[i].progress = 100]_vars

\* A video whose duration stayed unknown reported no progress at all.
C13_Witness ==
  /\ step = "compress-more" /\ Len(files) = 1
  /\ method = "video" /\ duration = 0
  /\ files[1].status = "completed" /\ files[1].result # <<>>
  /\ files[1].progress = 100

\* C14: the step leaves 'compressing' only for 'compress-more' and only with
\* every record of the batch 'completed' or 'error'; in 'compress-more' no
\* record is 'pending' or 'compressing'.
C14_DoneAfterAll ==
  [][ /\ (step = "compressing" /\ step' # "compressing") => step' = "compress-more"
      /\ step' = "compress-more" =>
            \A i \in 1..Len(files') : files'[i].status \in Terminal ]_vars

C14_Witness ==
  /\ step = "compress-more" /\ Len(files) = 2
  /\ files[1].status = "completed" /\ files[2].status = "error"

\* C15: the batch summary's totals: the input total is the sum of the sizes,
\* the output total counts result.outputSize for a completed record and the
\* file's own size for any other, the saved total is their difference and the
\* percentage is saved / input * 100 (whole percents), 0 for an input total of 0.
RECURSIVE SumOver(_, _, _)
SumOver(S, fs, completedCounts) ==
  IF S = {} THEN 0
  ELSE LET i == CHOOSE j \in S : TRUE
           term == IF completedCounts /\ fs[i].status = "completed"
                   THEN fs[i].result[1].outputSize ELSE fs[i].size
       IN term + SumOver(S \ {i}, fs, completedCounts)

C15_SummaryTotals ==
  summary # <<>> =>
    LET inBytes == SumOver(DOMAIN files, files, FALSE)
        outBytes == SumOver(DOMAIN files, files, TRUE)
        shown == summary[1]
    IN /\ shown.totalInputSize = inBytes
       /\ shown.totalOutputSize = outBytes
       /\ shown.totalSaved = inBytes - outBytes
       /\ IF inBytes = 0 THEN shown.savedPercentage = 0
          ELSE /\ shown.savedPercentage * inBytes <= (inBytes - outBytes) * 100
               /\ (inBytes - outBytes) * 100 < (shown.savedPercentage + 1) * inBytes

C15_Witness ==
  /\ summary # <<>>
  /\ files[1].status = "completed" /\ ~files[1].result[1].alreadyOptimized
  /\ files[2].status = "error"
  /\ summary[1].totalSaved > 0 /\ summary[1].savedPercentage > 0

\* C16: while the exit warning is shown, the timer that hides it again is
\* pending (the warning disarms by itself when no second interrupt comes).
C16_DisarmPending == exitWarning /\ ~exited /\ exitTimer = {} => warningTimeout

\* C17: an interrupt asks for the exit only when it arrives while the warning
\* is shown; the first interrupt only shows the warning; the process ends only
\* through a pending exit timer; no interrupt changes the step, the records
\* or the invocation in flight.
C17_TwoStageExit ==
  [][ /\ SigInt =>
           /\ UNCHANGED <<appVars, callVars, disk>>
           /\ IF exitWarning
              THEN "sigint" \in exitTimer'
              ELSE /\ exitWarning' /\ exitTimer' = exitTimer
                   /\ showThankYou' = showThankYou /\ ~exited'
      /\ ("sigint" \in exitTimer' /\ "sigint" \notin exitTimer) => exitWarning
      /\ (exited' /\ ~exited) => exitTimer # {} ]_vars

C17_Witness ==
  /\ exited /\ exitTimer = {"sigint"} /\ exitWarning
  /\ step = "compressing" /\ Len(files) = 2
  /\ files[1].status = "completed" /\ files[2].status = "compressing"

\* C18: an 'end' or 'error' event of the encoder settles the call: when the
\* invocation leaves its wait for the encoder, the promise of the current
\* file has been resolved or rejected.
C18_EndSettles ==
  [][ (pc = "encoding" /\ pc' # "encoding") => settled'[cur] # "none" ]_vars

\* C19: when a run is over, the failure of every failed file is on the screen
\* with its message and the next action (compress more / exit) is offered,
\* for a run of one file as for a batch.
C19_FailuresShown ==
  step = "compress-more" =>
    /\ CompressMoreRendered
    /\ \A i \in 1..Len(files) :
         files[i].status = "error" =>
           [name |-> files[i].name, text |-> files[i].error[1]] \in ShownErrors

\* C20: a target size the editor accepted is, in bytes, below the size of
\* every file of the batch.
C20_TargetBelowEveryFile ==
  (step = "advanced-settings" /\ edTargetSize # 0) =>
    \A i \in 1..Len(files) : edTargetSize < files[i].size

\* C23: a targeted audio compression to a lossless format falls back to the
\* standard compression once: compressAudio is re-entered at most one time
\* for a file, so the chain compressAudio -> compressAudioWithTargetSize ->
\* compressAudio ends.
C23_FallbackOnce == nest <= 1

\* C24: a record's status moves only pending -> compressing -> completed or
\* pending -> compressing -> error: a new record is 'pending', 'completed' and
\* 'error' stay until the list is reset, and no other status ('skipped') is
\* ever assigned.
StatusSteps ==
  {<<"pending", "compressing">>, <<"compressing", "completed">>,
   <<"compressing", "error">>}

C24_StatusPath ==
  [][ IF Len(files') = Len(files)
      THEN \A i \in 1..Len(files) :
             \/ files'[i].status = files[i].status
             \/ <<files[i].status, files'[i].status>> \in StatusSteps
      ELSE /\ \/ files = <<>> \/ files' = <<>>
              \/ \A i \in 1..Len(files) : files[i].status = "pending"
           /\ \A i \in 1..Len(files') : files'[i].status = "pending" ]_vars

C24_Witness ==
  /\ step = "compress-more" /\ Len(files) = 2
  /\ files[1].status = "completed" /\ files[2].status = "completed"
  /\ settled = <<"resolved", "resolved">>

\* C25: a record has a result exactly when it is 'completed' and an error
\* message only when it is 'error'; an 'error' record has no result.
C25_ResultErrorShape ==
  \A i \in 1..Len(files) :
    /\ files[i].result # <<>> <=> files[i].status = "completed"
    /\ files[i].error # <<>> => files[i].status = "error"
    /\ files[i].status = "error" => files[i].result = <<>>

C25_Witness ==
  /\ step = "compressing" /\ Len(files) = 2
  /\ files[1].status = "error" /\ files[1].error # <<>> /\ files[1].result = <<>>
  /\ files[2].status = "compressing"

\* C26: an update of the orchestrator changes only the record of the file it
\* is for and leaves that record's path, name, size and type alone; while the
\* list is not reset it keeps its length and order.
SameFile(a, b) ==
  /\ a.path = b.path /\ a.name = b.name /\ a.size = b.size
  /\ a.type = b.type /\ a.extension = b.extension

C26_UpdateFrame ==
  [][ (step = "compressing" \/ step' = "compressing") =>
        /\ Len(files') = Len(files)
        /\ \A i \in 1..Len(files) :
             /\ SameFile(files'[i], files[i])
             /\ files'[i] # files[i] => i \in {currentFileIndex, currentFileIndex'} ]_vars

C26_Witness ==
  /\ step = "compressing" /\ Len(files) = 2
  /\ files[1].status = "completed" /\ files[1].progress = 100
  /\ files[2].status = "compressing" /\ files[2].progress = 50

\* C27: the paths of the dropper's list, and of the list it hands over, are
\* pairwise distinct, whatever was dropped, dropped again or removed.
DistinctPaths(fs) ==
  \A i, j \in 1..Len(fs) : i # j => fs[i].path # fs[j].path

C27_DistinctPaths == DistinctPaths(droppedFiles) /\ DistinctPaths(files)

C27_Witness ==
  /\ enterResult = "accepted" /\ step = "quality-select"
  /\ Len(files) = 2 /\ files[1].path # files[2].path

\* C28: 'compress more' empties the list, unsets quality and the advanced
\* settings, clears removeInputFile and shows the dropper; a next run started
\* without advanced settings gets none, and gets the quality and the
\* removeInputFile chosen for it.
C28_SessionReset ==
  [][ /\ (step = "compress-more" /\ step' # "compress-more") =>
           /\ step' = "file-input" /\ files' = <<>> /\ quality' = Null
           /\ ~removeInputFile' /\ advancedSettings' = <<>>
      /\ (step = "advanced-settings-prompt" /\ step' = "compressing") =>
           /\ settings'.advanced = <<>>
           /\ settings'.removeInputFile = removeInputFile
           /\ settings'.quality = quality ]_vars

C28_Witness ==
  /\ step = "compressing" /\ pc = "encoding"
  /\ settled = <<"none">> /\ files[1].path = join(InputDir, Name_a_MOV)
  /\ settings.advanced = <<>> /\ ~settings.removeInputFile
  /\ ~existsSync(disk, join(InputDir, Name_a_mp4))

\* C29: for every file of a run the original is on disk, or the file has a
\* result that is not alreadyOptimized, is strictly smaller than the input and
\* whose output file is on disk at the result's outputPath.
C29_NoDataLoss ==
  \A i \in 1..Len(files) :
    \/ existsSync(disk, files[i].path)
    \/ /\ HasResult(i) /\ files[i].status = "completed"
       /\ ~ResultOf(i).alreadyOptimized
       /\ ResultOf(i).outputSize < files[i].size
       /\ ResultOf(i).outputPath # files[i].path
       /\ existsSync(disk, ResultOf(i).outputPath)
       /\ disk[ResultOf(i).outputPath] = ResultOf(i).outputSize

C29_Witness ==
  /\ Len(files) = 2 /\ removeInputFile
  /\ files[1].status = "completed" /\ ~existsSync(disk, files[1].path)
  /\ existsSync(disk, ResultOf(1).outputPath)
  /\ files[2].status = "error" /\ existsSync(disk, files[2].path)

\* C30: within a run the output paths of the completed results that are not
\* alreadyOptimized are pairwise distinct, and none of them is the path of an
\* input file of the batch.
C30_OutputsApart ==
  \A i \in 1..Len(files) :
    (HasResult(i) /\ ~ResultOf(i).alreadyOptimized) =>
      /\ \A j \in 1..Len(files) :
           (j # i /\ HasResult(j) /\ ~ResultOf(j).alreadyOptimized) =>
             ResultOf(j).outputPath # ResultOf(i).outputPath
      /\ \A j \in 1..Len(files) : ResultOf(i).outputPath # files[j].path

\* ================================================================ start-up
\* index.tsx, Setup and AutoCompress: what runs before any compression.
MaxInstalls == 2  \* installer processes Setup spawns in one session

Commands == {"interactive", "setup", "setup-force", "auto"}
Platforms == {"darwin", "linux", "win32"}
ExitCodes == {0, 1}
MissingFile == join(InputDir, <<"x">> \o Dot \o Fmt_mp4)
AutoPaths == {<<>>} \cup {<<p>> : p \in Droppable \cup {MissingFile}}

\* checkFFmpegInstalled: 'ffmpeg -version' runs without throwing.
checkFFmpegInstalled(present) == present

InstallMethod(id, available) == [id |-> id, available |-> available]

getInstallMethods(pf, brew) ==
  (IF pf = "darwin" THEN <<InstallMethod("brew", brew)>> ELSE <<>>)
    \o (IF pf = "linux"
        THEN <<InstallMethod("apt", TRUE), InstallMethod("yum", TRUE)>>
        ELSE <<>>)
    \o <<InstallMethod("manual", TRUE)>>

IsAvailable(m) == m.available
availableMethods == SelectSeq(installMethods, IsAvailable)

\* everything of the App and of the signal handling that start-up leaves alone
appSide == <<appVars, edVars, dirs, callVars, histVars, allocLog, dropVars, summary,
             exitWarning, warningTimeout, showThankYou, exitTimer>>

\* process.exit(code)
Exit(code) == exited' = TRUE /\ exitCode' = <<code>>

\* The command dispatch of index.tsx, with the first render of Main.
Start ==
  /\ ~exited /\ rendered = Null
  /\ IF command = "auto"
     THEN /\ IF autoPath = <<>>
             THEN /\ Exit(1)
                  /\ UNCHANGED <<rendered, startupCheck, autoStep>>
             ELSE /\ startupCheck' = <<checkFFmpegInstalled(ffmpegPresent)>>
                  /\ IF ~checkFFmpegInstalled(ffmpegPresent)
                     THEN Exit(1) /\ UNCHANGED <<rendered, autoStep>>
                     ELSE /\ rendered' = "AutoCompress"
                          /\ autoStep' = "validating"
                          /\ UNCHANGED <<exited, exitCode>>
          /\ UNCHANGED <<showApp, setupStep>>
     ELSE LET forceSetup == command = "setup-force"
              isFFmpegInstalled == checkFFmpegInstalled(ffmpegPresent)
              needsSetup == ~isFFmpegInstalled \/ forceSetup
          IN /\ startupCheck' = <<isFFmpegInstalled>>
             /\ showApp' = ~needsSetup
             /\ rendered' = "Main"
             /\ setupStep' = IF needsSetup THEN "checking" ELSE Null
             /\ UNCHANGED <<exited, exitCode, autoStep>>
  /\ UNCHANGED <<envVars, setupChecked, installMethods, selectedIndex, installProc,
                 installCode, recheck, enterPressed, autoInfo, autoSettings,
                 autoOutputPath, autoResult, disk, appSide>>

SetupMounted == ~exited /\ rendered = "Main" /\ ~showApp

\* The 1200 ms timer of Setup's first effect.
SetupCheck ==
  LET isInstalled == checkFFmpegInstalled(ffmpegPresent)
  IN /\ SetupMounted /\ setupStep = "checking"
     /\ setupChecked' = <<isInstalled>>
     /\ IF isInstalled /\ command # "setup-force"
        THEN setupStep' = "already-installed" /\ UNCHANGED installMethods
        ELSE /\ installMethods' = getInstallMethods(platform, brewAvailable)
             /\ setupStep' = "not-installed"
     /\ UNCHANGED <<envVars, rendered, startupCheck, showApp, selectedIndex,
                    installProc, installCode, recheck, enterPressed, autoVars,
                    exited, exitCode, disk, appSide>>

\* startInstallation
startInstallation(m) ==
  IF m.id = "manual"
  THEN setupStep' = "manual-instructions" /\ UNCHANGED <<installProc, installCode>>
  ELSE /\ setupStep' = "installing"
       /\ installProc' = Append(installProc, "running")
       /\ installCode' = Append(installCode, <<>>)

\* handleSetupComplete, and the unmount of Setup: the last installer is killed.
handleSetupComplete ==
  /\ showApp' = TRUE
  /\ installProc' = IF installProc # <<>>
                       /\ installProc[Len(installProc)] \in {"running", "errored"}
                    THEN [installProc EXCEPT ![Len(installProc)] = "killed"]
                    ELSE installProc

\* useInput of Setup: the return key.
SetupReturn ==
  /\ SetupMounted
  /\ setupStep \in {"not-installed", "select-method", "already-installed",
                    "install-success"}
  /\ CASE setupStep = "not-installed" ->
            /\ setupStep' = "select-method"
            /\ UNCHANGED <<showApp, installProc, installCode, enterPressed>>
       [] setupStep = "select-method" ->
            /\ Len(installProc) < MaxInstalls
                 \/ availableMethods[selectedIndex + 1].id = "manual"
            /\ startInstallation(availableMethods[selectedIndex + 1])
            /\ UNCHANGED <<showApp, enterPressed>>
       [] OTHER ->
            /\ handleSetupComplete
            /\ enterPressed' = TRUE
            /\ UNCHANGED <<setupStep, installCode>>
  /\ UNCHANGED <<envVars, rendered, startupCheck, setupChecked, installMethods,
                 selectedIndex, recheck, autoVars, exited, exitCode, disk, appSide>>

\* useInput of Setup: the escape key.
SetupEscape ==
  /\ SetupMounted
  /\ setupStep \notin {"checking", "installing"}
  /\ IF setupStep = "select-method"
     THEN setupStep' = "not-installed" /\ UNCHANGED <<exited, exitCode>>
     ELSE Exit(0) /\ UNCHANGED setupStep
  /\ UNCHANGED <<envVars, rendered, startupCheck, showApp, setupChecked,
                 installMethods, selectedIndex, installProc, installCode, recheck,
                 enterPressed, autoVars, disk, appSide>>

\* useInput of Setup: 'r' on the error and the manual screens.
SetupRetry ==
  /\ SetupMounted
  /\ setupStep \in {"install-error", "manual-instructions"}
  /\ setupStep' = "select-method"
  /\ UNCHANGED <<envVars, rendered, startupCheck, showApp, setupChecked,
                 installMethods, selectedIndex, installProc, installCode, recheck,
                 enterPressed, autoVars, exited, exitCode, disk, appSide>>

\* useInput of Setup: the arrow keys of the method list.
SetupArrow(up) ==
  LET n == Len(availableMethods)
  IN /\ SetupMounted /\ setupStep = "select-method"
     /\ selectedIndex' =
          IF up THEN (IF selectedIndex > 0 THEN selectedIndex - 1 ELSE n - 1)
          ELSE (IF selectedIndex < n - 1 THEN selectedIndex + 1 ELSE 0)
     /\ UNCHANGED <<envVars, rendered, startupCheck, showApp, setupStep,
                    setupChecked, installMethods, installProc, installCode, recheck,
                    enterPressed, autoVars, exited, exitCode, disk, appSide>>

\* proc.on('error'): the installer could not be started.
InstallError(i) ==
  /\ SetupMounted
  /\ installProc[i] = "running"
  /\ installProc' = [installProc EXCEPT ![i] = "errored"]
  /\ setupStep' = "install-error"
  /\ UNCHANGED <<envVars, rendered, startupCheck, showApp, setupChecked,
                 installMethods, selectedIndex, installCode, recheck, enterPressed,
                 autoVars, exited, exitCode, disk, appSide>>

\* proc.on('close'): exit code 0 arms the 500 ms re-check, any other code is
\* an install error. A successful installer may have put ffmpeg on the PATH.
InstallClose(i, code, present) ==
  /\ SetupMounted
  /\ installProc[i] \in {"running", "errored"}
  /\ installProc[i] = "errored" => code # 0
  /\ installCode' = [installCode EXCEPT ![i] = <<code>>]
  /\ IF code = 0
     THEN /\ installProc' = [installProc EXCEPT ![i] = "waiting"]
          /\ ffmpegPresent' = (ffmpegPresent \/ present)
          /\ UNCHANGED setupStep
     ELSE /\ installProc' = [installProc EXCEPT ![i] = "closed"]
          /\ setupStep' = "install-error"
          /\ UNCHANGED ffmpegPresent
  /\ UNCHANGED <<command, autoPath, platform, brewAvailable, rendered, startupCheck,
                 showApp, setupChecked, installMethods, selectedIndex, recheck,
                 enterPressed, autoVars, exited, exitCode, disk, appSide>>

\* The re-check with its test of checkFFmpegInstalled left out.
RecheckTimer_unchecked(i) ==
  /\ SetupMounted
  /\ installProc[i] = "waiting"
  /\ installProc' = [installProc EXCEPT ![i] = "closed"]
  /\ recheck' = <<[code |-> installCode[i], present |-> ffmpegPresent]>>
  /\ setupStep' = "install-success"
  /\ UNCHANGED <<envVars, rendered, startupCheck, showApp, setupChecked,
                 installMethods, selectedIndex, installCode, enterPressed, autoVars,
                 exited, exitCode, disk, appSide>>

\* The 500 ms timer of the close handler.
RecheckTimer(i) ==
  /\ SetupMounted
  /\ installProc[i] = "waiting"
  /\ installProc' = [installProc EXCEPT ![i] = "closed"]
  /\ recheck' = <<[code |-> installCode[i], present |-> ffmpegPresent]>>
  /\ setupStep' = IF checkFFmpegInstalled(ffmpegPresent) THEN "install-success"
                  ELSE "install-error"
  /\ UNCHANGED <<envVars, rendered, startupCheck, showApp, setupChecked,
                 installMethods, selectedIndex, installCode, enterPressed, autoVars,
                 exited, exitCode, disk, appSide>>

\* The environment: ffmpeg is installed or removed outside of sqsh.
FfmpegChanges ==
  /\ ~exited /\ rendered = "Main" /\ ~showApp
  /\ ffmpegPresent' = ~ffmpegPresent
  /\ UNCHANGED <<command, autoPath, platform, brewAvailable, rendered, startupCheck,
                 showApp, setupVars, autoVars, exited, exitCode, disk, appSide>>

\* The settings AutoCompress hands to the service.
AutoSettings == [quality |-> "low", removeInputFile |-> FALSE, advanced |-> <<>>]

\* runCompression of AutoCompress, up to the call of compress.
AutoRun ==
  LET info == getFileInfo(disk, autoPath[1])
  IN /\ ~exited /\ rendered = "AutoCompress" /\ autoStep = "validating"
     /\ IF info = <<>>
        THEN /\ autoStep' = "error"
             /\ UNCHANGED <<autoInfo, autoSettings, autoOutputPath>>
        ELSE /\ autoInfo' = info
             /\ autoStep' = "compressing"
             /\ autoSettings' = <<AutoSettings>>
             /\ autoOutputPath' =
                  <<generateOutputPath(disk, info[1].path, AutoSettings.advanced)>>
     /\ UNCHANGED <<envVars, rendered, startupCheck, showApp, setupVars, autoResult,
                    exited, exitCode, disk, appSide>>

\* compress resolves: the encoder wrote outputSize bytes.
AutoResolve(outputSize) ==
  LET disk1 == WriteFile(disk, autoOutputPath[1], outputSize)
      result == calculateResult(disk1, autoInfo[1], autoOutputPath[1])
      disk2 == DiskAfterResult(disk1, autoInfo[1], autoOutputPath[1], TRUE)
      remove == ShouldRemoveInput(autoSettings[1], result)
      del == deleteFile(disk2, autoInfo[1].path, TRUE)
  IN /\ ~exited /\ rendered = "AutoCompress" /\ autoStep = "compressing"
     /\ disk' = IF remove THEN del.disk ELSE disk2
     /\ autoResult' = <<ResultAfterRemoval(autoSettings[1], result)>>
     /\ autoStep' = "done"
     /\ UNCHANGED <<envVars, rendered, startupCheck, showApp, setupVars, autoInfo,
                    autoSettings, autoOutputPath, exited, exitCode, appSide>>

\* compress rejects before the encoder has written anything.
AutoReject ==
  /\ ~exited /\ rendered = "AutoCompress" /\ autoStep = "compressing"
  /\ autoStep' = "error"
  /\ UNCHANGED <<envVars, rendered, startupCheck, showApp, setupVars, autoInfo,
                 autoSettings, autoOutputPath, autoResult, exited, exitCode, disk,
                 appSide>>

\* exit() of useApp, called from the timers of the 'done' and 'error' steps.
AutoExit ==
  /\ ~exited /\ rendered = "AutoCompress" /\ autoStep \in {"done", "error"}
  /\ Exit(0)
  /\ UNCHANGED <<bootVars, disk, appSide>>

\* node starts index.tsx: the command line and the machine are given.
InitStartup ==
  /\ step = "file-input" /\ files = <<>> /\ currentFileIndex = 1
  /\ quality = Null /\ removeInputFile = FALSE /\ advancedSettings = <<>>
  /\ EditorClosed
  /\ disk = InitialDisk({})
  /\ dirs = {InputDir, OutFolder}
  /\ NoCall
  /\ runs = 0 /\ submitted = 0 /\ faults = 0 /\ settled = <<>> /\ wrote = <<>>
  /\ deleteCalled = {} /\ deletedInput = {} /\ allocDirValid = TRUE
  /\ allocLog = <<>>
  /\ DropperMounted /\ enterTimers = {} /\ enterResult = Null
  /\ NoInterrupt
  /\ summary = <<>>
  /\ command \in Commands
  /\ autoPath \in (IF command = "auto" THEN AutoPaths ELSE {<<>>})
  /\ platform \in Platforms
  /\ brewAvailable \in (IF platform = "darwin" THEN BOOLEAN ELSE {FALSE})
  /\ ffmpegPresent \in BOOLEAN
  /\ rendered = Null /\ startupCheck = <<>> /\ showApp = FALSE
  /\ SetupUnmounted /\ AutoUnmounted
  /\ exitCode = <<>>

NextStartup ==
  \/ Start
  \/ SetupCheck
  \/ SetupReturn
  \/ SetupEscape
  \/ SetupRetry
  \/ \E up \in BOOLEAN : SetupArrow(up)
  \/ \E i \in 1..Len(installProc) : InstallError(i)
  \/ \E i \in 1..Len(installProc), code \in ExitCodes, present \in BOOLEAN :
       InstallClose(i, code, present)
  \/ \E i \in 1..Len(installProc) : RecheckTimer(i)
  \/ FfmpegChanges
  \/ AutoRun
  \/ \E outputSize \in OutSizes : AutoResolve(outputSize)
  \/ AutoReject
  \/ AutoExit

SpecStartup == InitStartup /\ [][NextStartup]_vars

\* C22: the quick mode hands the encoder the settings the help text
\* announces, whatever the file: medium quality, no advanced settings, the
\* input file kept.
C22_AutoDefaults ==
  autoSettings # <<>> =>
    autoSettings[1] = [quality |-> "medium", removeInputFile |-> FALSE,
                       advanced |-> <<>>]

\* The App is shown by Main.
AppShown == rendered = "Main" /\ showApp

\* Setup's last screen is one that confirmed ffmpeg.
SetupConfirmed ==
  \/ setupStep = "already-installed" /\ setupChecked = <<TRUE>>
  \/ /\ setupStep = "install-success"
     /\ recheck = <<[code |-> <<0>>, present |-> TRUE]>>

\* C21: the App is shown only after the start-up check found ffmpeg, or after
\* Setup ended on 'already-installed' or 'install-success' (exit code 0 and
\* a re-check that found ffmpeg) and the return key was pressed; 'sqsh auto'
\* without ffmpeg exits with code 1 and AutoCompress is never rendered.
C21_DependencyFirst ==
  /\ AppShown =>
       \/ startupCheck = <<TRUE>> /\ command # "setup-force" /\ ~enterPressed
       \/ enterPressed /\ SetupConfirmed
  /\ rendered = "AutoCompress" => startupCheck = <<TRUE>>
  /\ autoSettings # <<>> => rendered = "AutoCompress"
  /\ (command = "auto" /\ startupCheck = <<FALSE>>) =>
       /\ exited /\ exitCode = <<1>>
       /\ rendered = Null /\ autoStep = Null /\ autoSettings = <<>>

\* The App shown after an installation that Setup started itself.
C21_Witness ==
  /\ AppShown /\ enterPressed
  /\ startupCheck = <<FALSE>>
  /\ setupStep = "install-success"

====
